---- MODULE Spec2Model ----
(***************************************************************************)
(* CharConverters: WideStrToUTF8 and UTF8ToWideStr                         *)
(* (src/charconverters.cpp, src/charconverters.hpp).                       *)
(*                                                                         *)
(* Each function is a loop over its input; one action is one iteration of  *)
(* that loop (or the return after it).  A call of WideStrToUTF8 may be     *)
(* followed by a call of UTF8ToWideStr on the bytes it returned, which is  *)
(* how a round trip is made.                                               *)
(***************************************************************************)
EXTENDS Integers, Sequences, FiniteSets

VARIABLES
    win32,      \* whether the build defines _WIN32 (wchar_t is then 16 bits wide)
    w2u_in,     \* WideStrToUTF8: in
    w2u_i,      \* WideStrToUTF8: i
    codePoint,  \* WideStrToUTF8: codePoint
    w2u_out,    \* WideStrToUTF8: out
    w2u_pc,     \* WideStrToUTF8: "idle" (not called), "loop", "done" (returned out), "throw"
    w2u_what,   \* WideStrToUTF8: what() of the exception thrown, "" if none
    u2w_in,     \* UTF8ToWideStr: in
    u2w_i,      \* UTF8ToWideStr: i
    u2w_out,    \* UTF8ToWideStr: out
    u2w_pc,     \* UTF8ToWideStr: "idle", "loop", "done", "throw", "abort"
    u2w_what,   \* UTF8ToWideStr: what() of the exception thrown, "" if none
    u2w_hi      \* UTF8ToWideStr: the highest index of in read so far, -1 if none

vars == <<win32, w2u_in, w2u_i, codePoint, w2u_out, w2u_pc, w2u_what,
          u2w_in, u2w_i, u2w_out, u2w_pc, u2w_what, u2w_hi>>

w2u_vars == <<w2u_in, w2u_i, codePoint, w2u_out, w2u_pc, w2u_what>>

u2w_vars == <<u2w_in, u2w_i, u2w_out, u2w_pc, u2w_what, u2w_hi>>

----------------------------------------------------------------------------
(* Bounds of the model *)

\* longest wide input built from UnitSample
MaxUnits == 3

\* longest byte input built from ByteSample
MaxBytes == 3

----------------------------------------------------------------------------
(* C++ integer operations *)

\* x & y on non-negative integers
RECURSIVE And(_, _)
And(x, y) ==
    IF x = 0 \/ y = 0 THEN 0
    ELSE (x % 2) * (y % 2) + 2 * And(x \div 2, y \div 2)

\* x | y on non-negative integers
RECURSIVE Or(_, _)
Or(x, y) ==
    IF x = 0 THEN y
    ELSE IF y = 0 THEN x
    ELSE (IF x % 2 = 1 \/ y % 2 = 1 THEN 1 ELSE 0) + 2 * Or(x \div 2, y \div 2)

\* x >> n
Shr(x, n) == x \div (2 ^ n)

\* x << n
Shl(x, n) == x * (2 ^ n)

\* x >> n where x has type uint32_t and is given as the integer in -2^31..2^31-1
\* congruent to it: a negative x stands for 2^32 + x, and 2^n divides 2^32
Shr32(x, n) == IF x >= 0 THEN x \div (2 ^ n) ELSE (2 ^ (32 - n)) + (x \div (2 ^ n))

\* static_cast<char8_t>(x)
Char8(x) == x % 256

\* static_cast<wchar_t>(x): 16 bits wide on Windows, 32 bits elsewhere
WChar(x) == IF win32 THEN x % (2 ^ 16) ELSE x

\* charconverters.hpp defines WideCharIsUTF16 unconditionally
WideCharIsUTF16 == TRUE

----------------------------------------------------------------------------
(* WideStrToUTF8 *)

\* the body of "if (wchar <= 0x7F)"
Encode1(wchar) == <<Char8(wchar)>>

\* the body of "else if (wchar <= 0x07FF)"
Encode2(wchar) ==
    <<Char8(Or(Shr(wchar, 6), \hC0)),
      Char8(Or(And(wchar, \h3F), \h80))>>

\* the final else: three-byte characters
Encode3(wchar) ==
    <<Char8(Or(Shr(wchar, 12), \hE0)),
      Char8(Or(And(Shr(wchar, 6), \h3F), \h80)),
      Char8(Or(And(wchar, \h3F), \h80))>>

\* the four push_back of the low-surrogate branch
Encode4(cp) ==
    <<Char8(Or(Shr(cp, 18), \hF0)),
      Char8(Or(And(Shr(cp, 12), \h3F), \h80)),
      Char8(Or(And(Shr(cp, 6), \h3F), \h80)),
      Char8(Or(And(cp, \h3F), \h80))>>

\* wchar >= 0xD800 && wchar <= 0xDBFF
IsHighSurrogate(wchar) == wchar >= \hD800 /\ wchar <= \hDBFF

\* wchar >= 0xDC00 && wchar <= 0xDFFF
IsLowSurrogate(wchar) == wchar >= \hDC00 /\ wchar <= \hDFFF

\* codePoint = ((wchar - 0xD800) * 0x400); at most 0x3FF * 0x400, no wrap-around
HighCarry(wchar) == (wchar - \hD800) * \h400

\* codePoint >= 0xD800 && codePoint <= 0xDFFF
CarryRejected(cp) == cp >= \hD800 /\ cp <= \hDFFF

\* codePoint += (wchar - 0xDC00); codePoint += 0x10000
\* (codePoint is at most 0x10FFFF before, so the uint32_t sums do not wrap around)
LowCombine(cp, wchar) == (cp + (wchar - \hDC00)) + \h10000

\* codePoint > 0x10FFFF
OutOfRange(cp) == cp > \h10FFFF

W2U_Throw(what) ==
    /\ w2u_pc' = "throw"
    /\ w2u_what' = what
    /\ w2u_out' = <<>>

W2U_Push(bytes) ==
    /\ w2u_out' = w2u_out \o bytes
    /\ w2u_i' = w2u_i + 1
    /\ UNCHANGED <<w2u_pc, w2u_what>>

\* one iteration of the for loop of WideStrToUTF8
W2U_Step ==
    /\ w2u_pc = "loop"
    /\ w2u_i < Len(w2u_in)
    /\ LET wchar == w2u_in[w2u_i + 1] IN
        IF wchar <= \h7F THEN
            /\ W2U_Push(Encode1(wchar))
            /\ UNCHANGED codePoint
        ELSE IF wchar <= \h07FF THEN
            /\ W2U_Push(Encode2(wchar))
            /\ UNCHANGED codePoint
        ELSE IF WideCharIsUTF16 /\ IsHighSurrogate(wchar) THEN
            /\ codePoint' = HighCarry(wchar)
            /\ W2U_Push(<<>>)
        ELSE IF WideCharIsUTF16 /\ IsLowSurrogate(wchar) THEN
            IF CarryRejected(codePoint) THEN
                /\ W2U_Throw("Invalid UTF-16 sequence: unexpected low surrogate")
                /\ UNCHANGED <<codePoint, w2u_i>>
            ELSE IF OutOfRange(LowCombine(codePoint, wchar)) THEN
                /\ codePoint' = LowCombine(codePoint, wchar)
                /\ W2U_Throw("Invalid UTF-16 sequence: low surrogate is out of range")
                /\ UNCHANGED w2u_i
            ELSE
                /\ codePoint' = LowCombine(codePoint, wchar)
                /\ W2U_Push(Encode4(LowCombine(codePoint, wchar)))
        ELSE
            /\ W2U_Push(Encode3(wchar))
            /\ UNCHANGED codePoint
    /\ UNCHANGED <<win32, w2u_in, u2w_vars>>

\* the loop condition fails: return out
W2U_Return ==
    /\ w2u_pc = "loop"
    /\ w2u_i >= Len(w2u_in)
    /\ w2u_pc' = "done"
    /\ UNCHANGED <<win32, w2u_in, w2u_i, codePoint, w2u_out, w2u_what, u2w_vars>>

----------------------------------------------------------------------------
(* UTF8ToWideStr *)

\* (in[i] & 0x80) == 0
IsLead1(b) == And(b, \h80) = 0

\* (in[i] & 0xE0) == 0xC0
IsLead2(b) == And(b, \hE0) = \hC0

\* (in[i] & 0xF0) == 0xE0
IsLead3(b) == And(b, \hF0) = \hE0

\* the four-byte test with the mask of the three-byte test
IsLead4_WrongMask(b) == And(b, \hF0) = \hF0

\* (in[i] & 0xF8) == 0xF0
IsLead4(b) == And(b, \hF8) = \hF0

\* ((in[i] & 0x1F) << 6) | (in[i + 1] & 0x3F)
Decode2(r) == Or(Shl(And(r[1], \h1F), 6), And(r[2], \h3F))

\* ((in[i] & 0x0F) << 12) | ((in[i + 1] & 0x3F) << 6) | (in[i + 2] & 0x3F)
Decode3(r) ==
    Or(Or(Shl(And(r[1], \h0F), 12), Shl(And(r[2], \h3F), 6)), And(r[3], \h3F))

\* ((in[i] & 0x07) << 24) | ((in[i + 1] & 0x3F) << 12) | ((in[i + 2] & 0x3F) << 6) | (in[i + 3] & 0x3F)
Decode4(r) ==
    Or(Or(Or(Shl(And(r[1], \h07), 24), Shl(And(r[2], \h3F), 12)),
          Shl(And(r[3], \h3F), 6)),
       And(r[4], \h3F))

\* ((u32 - 0x10000) >> 10) + 0xD800, the subtraction in uint32_t
HighOf(u32) == Shr32(u32 - \h10000, 10) + \hD800

\* (u32 % 0x400) + 0xDC00
LowOf(u32) == (u32 % \h400) + \hDC00

\* the units pushed for a four-byte run: the _WIN32 branch or the #else branch
Units4(r) ==
    IF win32 THEN <<WChar(HighOf(Decode4(r))), WChar(LowOf(Decode4(r)))>>
    ELSE <<WChar(Decode4(r))>>

\* in[k] for k >= in.size() is undefined behaviour of std::u8string_view: the read
\* may yield any byte (these stand for the values the memory past the end may hold)
\* or, in a checked library build, abort the program (U2W_Abort).
Garbage == {\h00, \h41, \h80, \hBF, \hFF}

Min(a, b) == IF a <= b THEN a ELSE b

Max(a, b) == IF a >= b THEN a ELSE b

\* the values of in[i], ..., in[i + n - 1] as the loop body reads them
Fetch(n) ==
    LET avail == Min(n, Len(u2w_in) - u2w_i) IN
    {SubSeq(u2w_in, u2w_i + 1, u2w_i + avail) \o g : g \in [1..(n - avail) -> Garbage]}

U2W_Push(units, n) ==
    /\ u2w_out' = u2w_out \o units
    /\ u2w_i' = u2w_i + n
    /\ u2w_hi' = Max(u2w_hi, u2w_i + n - 1)
    /\ UNCHANGED <<u2w_pc, u2w_what>>

\* the number of bytes the loop body reads for lead byte b (0: it throws)
RunLength(b) ==
    IF IsLead1(b) THEN 1
    ELSE IF IsLead2(b) THEN 2
    ELSE IF IsLead3(b) THEN 3
    ELSE IF IsLead4(b) THEN 4
    ELSE 0

\* one iteration of the for loop of UTF8ToWideStr
U2W_Step ==
    /\ u2w_pc = "loop"
    /\ u2w_i < Len(u2w_in)
    /\ LET b == u2w_in[u2w_i + 1] IN
        IF IsLead1(b) THEN
            U2W_Push(<<WChar(b)>>, 1)
        ELSE IF IsLead2(b) THEN
            \E r \in Fetch(2) : U2W_Push(<<WChar(Decode2(r))>>, 2)
        ELSE IF IsLead3(b) THEN
            \E r \in Fetch(3) : U2W_Push(<<WChar(Decode3(r))>>, 3)
        ELSE IF IsLead4(b) THEN
            \E r \in Fetch(4) : U2W_Push(Units4(r), 4)
        ELSE
            /\ u2w_pc' = "throw"
            /\ u2w_what' = "Invalid character"
            /\ u2w_out' = <<>>
            /\ u2w_hi' = Max(u2w_hi, u2w_i)
            /\ UNCHANGED u2w_i
    /\ UNCHANGED <<win32, u2w_in, w2u_vars>>

\* an iteration whose run reaches past the end of in, in a build whose operator[]
\* checks its index: the program is aborted at the first index >= in.size()
U2W_Abort ==
    /\ u2w_pc = "loop"
    /\ u2w_i < Len(u2w_in)
    /\ u2w_i + RunLength(u2w_in[u2w_i + 1]) > Len(u2w_in)
    /\ u2w_pc' = "abort"
    /\ u2w_out' = <<>>
    /\ u2w_hi' = Len(u2w_in)
    /\ UNCHANGED <<win32, u2w_in, u2w_i, u2w_what, w2u_vars>>

\* the loop condition fails: return out
U2W_Return ==
    /\ u2w_pc = "loop"
    /\ u2w_i >= Len(u2w_in)
    /\ u2w_pc' = "done"
    /\ UNCHANGED <<win32, u2w_in, u2w_i, u2w_out, u2w_what, u2w_hi, w2u_vars>>

\* UTF8ToWideStr(WideStrToUTF8(w)): the bytes returned are decoded again
RoundTrip ==
    /\ w2u_pc = "done"
    /\ u2w_pc = "idle"
    /\ u2w_in' = w2u_out
    /\ u2w_pc' = "loop"
    /\ UNCHANGED <<win32, u2w_i, u2w_out, u2w_what, u2w_hi, w2u_vars>>

----------------------------------------------------------------------------
(* Inputs *)

SeqsUpTo(S, n) == UNION {[1..k -> S] : k \in 0..n}

\* wchar_t values at the edges of every branch of WideStrToUTF8
UnitSample ==
    {\h00, \h41, \h7F, \h80, \h7FF, \h800, \hFFFF,
     \hD800, \hD801, \hD836, \hDBFF, \hDC00, \hDC37, \hDFFF}

\* low surrogates paired with every high surrogate
LowSample == {\hDC00, \hDC37, \hDFFF}

\* code points of the Basic Multilingual Plane given as one unit
BmpSample == {u \in 0..\hFFFF : u % 256 \in {\h00, \h7F, \h80, \hFF}}

\* a 32-bit wchar_t also holds code points above U+FFFF
WideSample == {\h10000, \h10437, \h10FFFF}

WideInputs(w32) ==
    SeqsUpTo(UnitSample, MaxUnits)
    \cup {<<h, l>> : h \in \hD800..\hDBFF, l \in LowSample}
    \cup {<<u>> : u \in BmpSample}
    \cup (IF w32 THEN {} ELSE {<<u>> : u \in WideSample})

\* bytes of every class the decoder tells apart
ByteSample ==
    {\h00, \h41, \h7F, \h80, \hBF, \hC2, \hDF, \hE0, \hEF, \hF0, \hF4, \hF7, \hF8, \hFF}

\* well-formed runs to put before the byte under test
Prefixes ==
    {<<>>, <<\h41>>, <<\hC3, \hA9>>, <<\hE2, \h82, \hAC>>, <<\hF0, \h90, \h90, \hB7>>}

\* four-byte runs over every lead byte 11110xxx
ContSample == {\h80, \h8F, \h90, \hB7, \hBF}

ByteInputs ==
    SeqsUpTo(ByteSample, MaxBytes)
    \cup {p \o <<b>> : p \in Prefixes, b \in 0..255}
    \cup {<<l, c1, c2, c3>> : l \in \hF0..\hF7, c1 \in ContSample,
                              c2 \in ContSample, c3 \in ContSample}

----------------------------------------------------------------------------
(* Specification *)

W2U_Call ==
    /\ w2u_in \in WideInputs(win32)
    /\ w2u_pc = "loop"
    /\ u2w_in = <<>>
    /\ u2w_pc = "idle"

U2W_Call ==
    /\ w2u_in = <<>>
    /\ w2u_pc = "idle"
    /\ u2w_in \in ByteInputs
    /\ u2w_pc = "loop"

Init ==
    /\ win32 \in BOOLEAN
    /\ w2u_i = 0
    /\ codePoint = 0
    /\ w2u_out = <<>>
    /\ w2u_what = ""
    /\ u2w_i = 0
    /\ u2w_out = <<>>
    /\ u2w_what = ""
    /\ u2w_hi = -1
    /\ (W2U_Call \/ U2W_Call)

Next ==
    \/ W2U_Step
    \/ W2U_Return
    \/ RoundTrip
    \/ U2W_Step
    \/ U2W_Abort
    \/ U2W_Return

Spec == Init /\ [][Next]_vars

----------------------------------------------------------------------------
(* Unicode reference definitions the properties are stated with *)

\* the standard UTF-8 form of a code point (the table of the standard)
StdUTF8(cp) ==
    IF cp <= \h7F THEN <<cp>>
    ELSE IF cp <= \h7FF THEN <<\hC0 + (cp \div 64), \h80 + (cp % 64)>>
    ELSE IF cp <= \hFFFF THEN
        <<\hE0 + (cp \div 4096), \h80 + ((cp \div 64) % 64), \h80 + (cp % 64)>>
    ELSE
        <<\hF0 + (cp \div 262144), \h80 + ((cp \div 4096) % 64),
          \h80 + ((cp \div 64) % 64), \h80 + (cp % 64)>>

\* the number of bytes the length table gives a code point
StdLength(cp) ==
    IF cp <= \h7F THEN 1 ELSE IF cp <= \h7FF THEN 2 ELSE IF cp <= \hFFFF THEN 3 ELSE 4

\* the code point of the surrogate pair (h, l)
PairCodePoint(h, l) == ((h - \hD800) * \h400) + (l - \hDC00) + \h10000

\* the surrogate pair of a code point above U+FFFF
SurrogatePair(cp) ==
    <<((cp - \h10000) \div \h400) + \hD800, ((cp - \h10000) % \h400) + \hDC00>>

InHigh(u) == u \in \hD800..\hDBFF

InLow(u) == u \in \hDC00..\hDFFF

\* w is the 16-bit wide encoding of one code point outside the surrogate range
IsWideEncoding(w) ==
    \/ Len(w) = 1 /\ w[1] \in 0..\hFFFF /\ ~InHigh(w[1]) /\ ~InLow(w[1])
    \/ Len(w) = 2 /\ InHigh(w[1]) /\ InLow(w[2])

\* the code point w encodes, for such a w
EncodedCodePoint(w) == IF Len(w) = 1 THEN w[1] ELSE PairCodePoint(w[1], w[2])

\* every unit of w fits 16 bits
Is16Bit(w) == \A k \in 1..Len(w) : w[k] \in 0..\hFFFF

W2U_Finished == w2u_pc \in {"done", "throw"}

U2W_Finished == u2w_pc \in {"done", "throw", "abort"}

Unexpected == "Invalid UTF-16 sequence: unexpected low surrogate"

----------------------------------------------------------------------------
(* Properties *)

\* C1: round trip in 16-bit mode: for the wide encoding w of a code point outside
\* the surrogate range, WideStrToUTF8(w) succeeds and
\* UTF8ToWideStr(WideStrToUTF8(w)) is w.
C1_RoundTrip ==
    (win32 /\ IsWideEncoding(w2u_in)) =>
        /\ w2u_pc # "throw"
        /\ U2W_Finished => (u2w_pc = "done" /\ u2w_out = w2u_in)

\* C2: WideStrToUTF8 fails with the unexpected-low-surrogate error, returning no
\* bytes, for every input in which a low surrogate occurs with no high surrogate
\* anywhere before it.
C2_UnpairedLowFails ==
    (/\ W2U_Finished
     /\ Is16Bit(w2u_in)
     /\ \E k \in 1..Len(w2u_in) :
            InLow(w2u_in[k]) /\ \A j \in 1..(k - 1) : ~InHigh(w2u_in[j]))
    => (w2u_pc = "throw" /\ w2u_what = Unexpected /\ w2u_out = <<>>)

\* the byte at the cursor is a continuation byte 0x80-0xBF or a byte >= 0xF8
AtInvalidLead ==
    /\ u2w_pc = "loop"
    /\ u2w_i < Len(u2w_in)
    /\ (u2w_in[u2w_i + 1] \in \h80..\hBF \/ u2w_in[u2w_i + 1] >= \hF8)

\* C3: whenever the byte at the cursor of UTF8ToWideStr is a continuation byte or a
\* byte >= 0xF8, the call fails with the invalid-character error and returns no
\* output, whatever runs were decoded before it.
C3_InvalidLeadThrows ==
    [][AtInvalidLead =>
        (u2w_pc' = "throw" /\ u2w_what' = "Invalid character" /\ u2w_out' = <<>>)]_vars

\* C3 happens: a run was decoded, then a byte >= 0xF8 at the cursor made the call throw
C3_Witness ==
    /\ u2w_pc = "throw"
    /\ u2w_i > 0
    /\ u2w_in[u2w_i + 1] >= \hF8
    /\ u2w_out = <<>>

\* C4: length table: WideStrToUTF8 of the 16-bit wide encoding of a code point
\* outside the surrogate range succeeds and returns 1, 2, 3 or 4 bytes by the range
\* of the code point; U+FFFF gives EF BF BF and U+10000 gives F0 90 80 80.
C4_LengthTable ==
    (W2U_Finished /\ IsWideEncoding(w2u_in)) =>
        /\ w2u_pc = "done"
        /\ Len(w2u_out) = StdLength(EncodedCodePoint(w2u_in))
        /\ (w2u_in = <<\hFFFF>> => w2u_out = <<\hEF, \hBF, \hBF>>)
        /\ (w2u_in = <<\hD800, \hDC00>> => w2u_out = <<\hF0, \h90, \h80, \h80>>)

\* the bytes at the cursor are the standard four-byte form of a code point
AtStd4(cp) ==
    /\ u2w_pc = "loop"
    /\ u2w_i + 4 <= Len(u2w_in)
    /\ SubSeq(u2w_in, u2w_i + 1, u2w_i + 4) = StdUTF8(cp)

\* C5: in 16-bit mode UTF8ToWideStr decodes the standard four-byte form of every
\* code point cp in 0x10000..0x10FFFF to the two units
\* ((cp - 0x10000) >> 10) + 0xD800 and (cp - 0x10000) mod 0x400 + 0xDC00.
C5_FourByteRun ==
    [][\A l \in \hF0..\hF4 :
        LET cp == IF u2w_pc = "loop" /\ u2w_i + 4 <= Len(u2w_in) /\ u2w_in[u2w_i + 1] = l
                  THEN ((l - \hF0) * 262144) + ((u2w_in[u2w_i + 2] % 64) * 4096)
                       + ((u2w_in[u2w_i + 3] % 64) * 64) + (u2w_in[u2w_i + 4] % 64)
                  ELSE 0
        IN (win32 /\ cp \in \h10000..\h10FFFF /\ AtStd4(cp)) =>
               (u2w_pc' = "loop" /\ u2w_out' = u2w_out \o SurrogatePair(cp))]_vars

\* the encoder is about to take a low surrogate that directly follows a high one
AtPairedLow ==
    /\ w2u_pc = "loop"
    /\ w2u_i >= 1
    /\ w2u_i < Len(w2u_in)
    /\ InHigh(w2u_in[w2u_i])
    /\ InLow(w2u_in[w2u_i + 1])

\* C6: a high surrogate H immediately followed by a low surrogate L raises no error
\* and emits exactly the four bytes of the code point of (H, L); the carry lies in
\* 0xD800..0xDFFF only when no high surrogate has set it.
C6_PairEncodes ==
    [][/\ AtPairedLow =>
            /\ w2u_pc' = "loop"
            /\ w2u_out' = w2u_out \o
                    StdUTF8(PairCodePoint(w2u_in[w2u_i], w2u_in[w2u_i + 1]))
       /\ (codePoint' \in \hD800..\hDFFF) =>
            (\A k \in 1..w2u_i' : ~InHigh(w2u_in[k]))]_vars

\* C7: the carry is zero at the start and again right after every successful
\* pairing: a high surrogate, then a low surrogate for which four bytes were emitted.
C7_CarryCleared ==
    /\ (w2u_pc = "loop" /\ w2u_i = 0) => codePoint = 0
    /\ (/\ w2u_pc \in {"loop", "done"}
        /\ w2u_i >= 2
        /\ InHigh(w2u_in[w2u_i - 1])
        /\ InLow(w2u_in[w2u_i])) => codePoint = 0

\* the encoder is about to take a high surrogate
AtHigh ==
    /\ w2u_pc = "loop"
    /\ w2u_i < Len(w2u_in)
    /\ InHigh(w2u_in[w2u_i + 1])

\* the encoder is about to take a low surrogate that does not directly follow a
\* high surrogate
AtLoneLow ==
    /\ w2u_pc = "loop"
    /\ w2u_i < Len(w2u_in)
    /\ Is16Bit(w2u_in)
    /\ InLow(w2u_in[w2u_i + 1])
    /\ (w2u_i >= 1 => ~InHigh(w2u_in[w2u_i]))

\* C8: a high surrogate raises no error and emits no bytes, and when it is followed
\* by a unit that is not a low surrogate its carry is discarded: a low surrogate
\* later in the input is not paired with it.  (The carry of 0xD800 is zero, which
\* is also the carry of no high surrogate at all, so the pairing shows for the
\* high surrogates above 0xD800.)
C8_CarryDiscarded ==
    [][/\ AtHigh => (w2u_pc' = "loop" /\ w2u_out' = w2u_out)
       /\ AtLoneLow =>
            \A j \in 1..(w2u_i - 1) :
                (InHigh(w2u_in[j]) /\ w2u_in[j] # \hD800 /\ ~InLow(w2u_in[j + 1])) =>
                    w2u_out' # w2u_out \o
                        StdUTF8(PairCodePoint(w2u_in[j], w2u_in[w2u_i + 1]))]_vars

\* the decoder is about to take a complete four-byte run
AtLead4 ==
    /\ u2w_pc = "loop"
    /\ u2w_i + 4 <= Len(u2w_in)
    /\ u2w_in[u2w_i + 1] \in \hF0..\hF7

\* C9: both operations take the same width: the decoder emits a surrogate pair for a
\* four-byte run exactly when the encoder has its surrogate branches.
C9_SameWidth ==
    [][AtLead4 => ((Len(u2w_out') = Len(u2w_out) + 2) <=> WideCharIsUTF16)]_vars

\* C10: every index UTF8ToWideStr reads is below the input length, the cursor never
\* exceeds the input length, and the call does not return from a truncated final run.
C10_ReadsInBounds ==
    /\ u2w_hi < Len(u2w_in)
    /\ u2w_i <= Len(u2w_in)
    /\ (u2w_pc = "done" => u2w_i = Len(u2w_in))

====
